---- MODULE Spec2Model ----
(***************************************************************************)
(* Model of src/core/gl/hidden_surface.js: the HiddenSurface render target *)
(* and the Shader wrapper, running against one WebGL context.              *)
(*                                                                         *)
(* The context is the record gl (bindings and the objects it owns).  Every *)
(* method of the source is an operator on a "run" record                   *)
(*     [gl, log, draws, err]                                               *)
(* that threads the context through the method's statements in source      *)
(* order, appends each context call to log and each draw to draws, and     *)
(* stops at the first throw (err # NoErr).  An action applies one whole    *)
(* method call and keeps the context, the error and the call's arguments;  *)
(* the claims about the calls a method issues read its run record.         *)
(***************************************************************************)
EXTENDS Integers, Sequences, FiniteSets, TLC

\* ---------------------------------------------------------------- bounds
MaxSeqLen == 17      \* longest array handed to setUniform
MaxTextures == 2     \* longest textures list handed to render
MaxDim == 2          \* largest width / height of a hidden surface
MaxHalves == 3       \* scalar uniform values are 0, 1/2, ..., MaxHalves/2

\* ------------------------------------------------------------- universes
Null == "null"
ShaderIds == {"A", "B"}
HiddenIds == {"H"}
Visible == "visible"
Units == 0 .. (MaxTextures - 1)
Dims == 1 .. MaxDim

ProgramOf == [A |-> "progA", B |-> "progB"]
BufferOf == [A |-> "bufA", B |-> "bufB"]
FbOf == [H |-> "fbH"]
TexOf == [H |-> "texH"]
RbOf == [H |-> "rbH"]

Programs == {ProgramOf[s] : s \in ShaderIds}
Framebuffers == {FbOf[h] : h \in HiddenIds}
Renderbuffers == {RbOf[h] : h \in HiddenIds}
\* "t1", "t2" are textures of the application, wrapped in Texture objects
WrappedHandles == {"t1", "t2"}
TexHandles == WrappedHandles \cup {TexOf[h] : h \in HiddenIds}

\* the uniform names a caller may pass; only the first has a location
UniformNames == {"amount", "typo"}
ActiveUniforms == {"amount"}

NoDims == <<0, 0>>
Unset == [fn |-> "unset", len |-> 0, transpose |-> FALSE]

\* a value handed to setUniform: a number (twice its value is kept, so that
\* halves are numbers too) or an array of len numbers
Values ==
  {[kind |-> "number", len |-> 0, twice |-> n] : n \in 0 .. MaxHalves}
    \cup {[kind |-> "array", len |-> n, twice |-> 0] : n \in 0 .. MaxSeqLen}

\* Array.isArray(value)
Array_isArray(value) == value.kind = "array"

\* Number.isInteger(value): a number without a fractional part
Number_isInteger(value) == value.kind = "number" /\ value.twice % 2 = 0

VARIABLES gl, shader, hidden, op, err

vars == <<gl, shader, hidden, op, err>>

\* ------------------------------------------------------ the WebGL context
Call(name, obj, x, y) == [call |-> name, obj |-> obj, x |-> x, y |-> y]

Emit(c, name, obj, x, y) == [c EXCEPT !.log = Append(@, Call(name, obj, x, y))]

Throw(c, e) == [c EXCEPT !.err = e]

bindFramebuffer(c, fb) ==
  [Emit(c, "bindFramebuffer", fb, 0, 0) EXCEPT !.gl.framebuffer = fb]

bindTexture(c, t) ==
  [Emit(c, "bindTexture", t, c.gl.unit, 0) EXCEPT !.gl.tex[c.gl.unit] = t]

bindRenderbuffer(c, rb) ==
  [Emit(c, "bindRenderbuffer", rb, 0, 0) EXCEPT !.gl.renderbuffer = rb]

activeTexture(c, u) ==
  [Emit(c, "activeTexture", "TEXTURE", u, 0) EXCEPT !.gl.unit = u]

\* texImage2D gives storage to the texture bound on the active unit
texImage2D(c, w, h) ==
  LET t == c.gl.tex[c.gl.unit]
      d == Emit(c, "texImage2D", t, w, h)
  IN IF t = Null THEN d ELSE [d EXCEPT !.gl.texDims[t] = <<w, h>>]

\* renderbufferStorage gives storage to the bound renderbuffer
renderbufferStorage(c, w, h) ==
  LET rb == c.gl.renderbuffer
      d == Emit(c, "renderbufferStorage", rb, w, h)
  IN IF rb = Null THEN d ELSE [d EXCEPT !.gl.rbDims[rb] = <<w, h>>]

\* the attachments go to the bound framebuffer
framebufferTexture2D(c, t) ==
  LET fb == c.gl.framebuffer
      d == Emit(c, "framebufferTexture2D", t, 0, 0)
  IN IF fb = Null THEN d ELSE [d EXCEPT !.gl.fbs[fb].color = t]

framebufferRenderbuffer(c, rb) ==
  LET fb == c.gl.framebuffer
      d == Emit(c, "framebufferRenderbuffer", rb, 0, 0)
  IN IF fb = Null THEN d ELSE [d EXCEPT !.gl.fbs[fb].depth = rb]

viewport(c, w, h) ==
  [Emit(c, "viewport", "-", w, h) EXCEPT !.gl.viewport = <<0, 0, w, h>>]

\* useProgram(null) is legal; a program flagged for deletion is deleted once
\* it is no longer the current program
useProgram(c, p) ==
  LET old == c.gl.program
      d == [Emit(c, "useProgram", p, 0, 0) EXCEPT !.gl.program = p]
  IN IF old # Null /\ old # p /\ d.gl.programs[old].flagged
     THEN [d EXCEPT !.gl.programs[old].deleted = TRUE]
     ELSE d

bindBuffer(c, b) ==
  [Emit(c, "bindBuffer", b, 0, 0) EXCEPT !.gl.arrayBuffer = b]

\* deleteProgram(null) is silently ignored; a program in use is only flagged
deleteProgram(c, p) ==
  LET d == Emit(c, "deleteProgram", p, 0, 0)
  IN IF p = Null \/ d.gl.programs[p].flagged THEN d
     ELSE [d EXCEPT !.gl.programs[p].flagged = TRUE,
                    !.gl.programs[p].deleted = (d.gl.program # p),
                    !.gl.programs[p].releases = @ + 1]

\* a draw executes only with a usable current program, and writes the colour
\* attachment of the bound framebuffer
drawArrays(c, mode, first, count) ==
  LET p == c.gl.program
      ok == p # Null /\ c.gl.programs[p].linked /\ ~c.gl.programs[p].deleted
      shot == [program |-> p, executed |-> ok, mode |-> mode, first |-> first,
               count |-> count, framebuffer |-> c.gl.framebuffer,
               viewport |-> c.gl.viewport, tex |-> c.gl.tex,
               arrayBuffer |-> c.gl.arrayBuffer,
               uniforms |-> IF p = Null THEN Unset
                            ELSE c.gl.programs[p].uniforms["amount"]]
      fb == c.gl.framebuffer
      d == [Emit(c, "drawArrays", mode, first, count) EXCEPT !.draws = Append(@, shot)]
  IN IF ok /\ fb # Null /\ c.gl.fbs[fb].color # Null
     THEN [d EXCEPT !.gl.written = @ \cup {c.gl.fbs[fb].color}]
     ELSE d

\* a location names the program it was queried from; NullLoc is null
NullLoc == [program |-> Null, name |-> Null]

\* getUniformLocation(null, name) is a TypeError of the binding; a name that
\* is no active uniform of the linked program has no location
getUniformLocation(p, name) ==
  IF name \in ActiveUniforms THEN [program |-> p, name |-> name] ELSE NullLoc

\* a uniform upload lands in the current program, and only through a location
\* of that program (a null location is silently ignored)
Upload(c, fn, loc, len, transpose) ==
  LET p == c.gl.program
      d == Emit(c, fn, loc.name, len, IF transpose THEN 1 ELSE 0)
  IN IF p = Null \/ loc = NullLoc \/ loc.program # p THEN d
     ELSE [d EXCEPT !.gl.programs[p].uniforms[loc.name] =
                       [fn |-> fn, len |-> len, transpose |-> transpose]]

\* ------------------------------------------------------------ HiddenSurface
\* the constructor with the depth storage given height by width
HiddenSurfaceNew_SwappedDepth(c, h, width, height) ==
  LET fb == FbOf[h]
      t == TexOf[h]
      rb == RbOf[h]
      c1 == bindFramebuffer(Emit(c, "createFramebuffer", fb, 0, 0), fb)
      c2 == [c1 EXCEPT !.gl.fbs[fb].width = width, !.gl.fbs[fb].height = height]
      c3 == bindTexture(Emit(c2, "createTexture", t, 0, 0), t)
      c6 == texImage2D(c3, c3.gl.fbs[fb].width, c3.gl.fbs[fb].height)
      c7 == bindRenderbuffer(Emit(c6, "createRenderbuffer", rb, 0, 0), rb)
      c8 == renderbufferStorage(c7, c7.gl.fbs[fb].height, c7.gl.fbs[fb].width)
      c9 == framebufferRenderbuffer(framebufferTexture2D(c8, t), rb)
  IN bindFramebuffer(bindRenderbuffer(bindTexture(c9, Null), Null), Null)

\* the constructor without its last line, the framebuffer left bound
HiddenSurfaceNew_LeavesBound(c, h, width, height) ==
  LET fb == FbOf[h]
      t == TexOf[h]
      rb == RbOf[h]
      c1 == bindFramebuffer(Emit(c, "createFramebuffer", fb, 0, 0), fb)
      c2 == [c1 EXCEPT !.gl.fbs[fb].width = width, !.gl.fbs[fb].height = height]
      c3 == bindTexture(Emit(c2, "createTexture", t, 0, 0), t)
      c6 == texImage2D(c3, c3.gl.fbs[fb].width, c3.gl.fbs[fb].height)
      c7 == bindRenderbuffer(Emit(c6, "createRenderbuffer", rb, 0, 0), rb)
      c8 == renderbufferStorage(c7, c7.gl.fbs[fb].width, c7.gl.fbs[fb].height)
      c9 == framebufferRenderbuffer(framebufferTexture2D(c8, t), rb)
  IN bindRenderbuffer(bindTexture(c9, Null), Null)

\* constructor(gl, width, height), lines 15-41
HiddenSurfaceNew(c, h, width, height) ==
  LET fb == FbOf[h]
      t == TexOf[h]
      rb == RbOf[h]
      c1 == bindFramebuffer(Emit(c, "createFramebuffer", fb, 0, 0), fb)
      c2 == [c1 EXCEPT !.gl.fbs[fb].width = width, !.gl.fbs[fb].height = height]
      c3 == bindTexture(Emit(c2, "createTexture", t, 0, 0), t)
      c4 == Emit(Emit(c3, "texParameteri", "MAG_FILTER:LINEAR", 0, 0),
                 "texParameteri", "MIN_FILTER:LINEAR_MIPMAP_NEAREST", 0, 0)
      c5 == Emit(c4, "generateMipmap", "TEXTURE_2D", 0, 0)
      c6 == texImage2D(c5, c5.gl.fbs[fb].width, c5.gl.fbs[fb].height)
      c7 == bindRenderbuffer(Emit(c6, "createRenderbuffer", rb, 0, 0), rb)
      c8 == renderbufferStorage(c7, c7.gl.fbs[fb].width, c7.gl.fbs[fb].height)
      c9 == framebufferRenderbuffer(framebufferTexture2D(c8, t), rb)
  IN bindFramebuffer(bindRenderbuffer(bindTexture(c9, Null), Null), Null)

\* unbind() that also gives the framebuffer binding back
HiddenUnbind_Framebuffer(c, h) == bindFramebuffer(bindTexture(c, Null), Null)

\* unbind(), lines 46-48
HiddenUnbind(c, h) == bindTexture(c, Null)

\* bind(), lines 53-55
HiddenBind(c, h) == bindFramebuffer(c, hidden[h].hiddenSurface)

\* getTexture(), lines 61-63: the raw context texture, not a Texture object
getTexture(h) == [wrapped |-> FALSE, id |-> hidden[h].framebuffer_texture]

\* ------------------------------------- collaborators that are not in src/
\* the visible surface is the default backbuffer
VisibleBind(c) == bindFramebuffer(c, Null)

VisibleUnbind(c) == c

VisibleDims == <<3, 3>>

SurfaceBind(c, surface) ==
  IF surface = Visible THEN VisibleBind(c) ELSE HiddenBind(c, surface)

SurfaceUnbind(c, surface) ==
  IF surface = Visible THEN VisibleUnbind(c) ELSE HiddenUnbind(c, surface)

\* Surface.getWidth / getHeight: the dimensions declared for the target
getWidth(c, surface) ==
  IF surface = Visible THEN VisibleDims[1]
  ELSE c.gl.fbs[hidden[surface].hiddenSurface].width

getHeight(c, surface) ==
  IF surface = Visible THEN VisibleDims[2]
  ELSE c.gl.fbs[hidden[surface].hiddenSurface].height

\* Texture.use(unit) / Texture.unuse(unit)
TextureUse(c, t, unit) == bindTexture(activeTexture(c, unit), t.id)

TextureUnuse(c, t, unit) == bindTexture(activeTexture(c, unit), Null)

\* ------------------------------------------------------------------ Shader
NoErr == [kind |-> "none", text |-> ""]

\* what the driver answers for a source: sources are "good" or "bad"
Sources == {"good", "bad"}

getShaderInfoLog(type) == IF type = "VERTEX_SHADER" THEN "vlog" ELSE "flog"

getProgramInfoLog == "llog"

\* compileSource without the check of COMPILE_STATUS
compileSource_Unchecked(c, type, source) ==
  Emit(Emit(Emit(c, "createShader", type, 0, 0), "shaderSource", type, 0, 0),
       "compileShader", type, 0, 0)

\* compileSource(type, source), lines 119-127
compileSource(c, type, source) ==
  LET c1 == Emit(c, "createShader", type, 0, 0)
      c2 == Emit(Emit(c1, "shaderSource", type, 0, 0), "compileShader", type, 0, 0)
  IN IF source # "good"
     THEN Throw(c2, [kind |-> "compile error", text |-> getShaderInfoLog(type)])
     ELSE c2

\* the part of the constructor after a successful link, lines 98-109
ShaderNewBuffers(c, s) ==
  LET c1 == bindBuffer(Emit(c, "createBuffer", BufferOf[s], 0, 0), BufferOf[s])
      c2 == Emit(c1, "bufferData", BufferOf[s], 16, 0)
      c3 == useProgram(c2, ProgramOf[s])
  IN Emit(c3, "getAttribLocation", "position", 0, 0)

\* constructor(gl, vertexSource, fragmentSource), lines 87-110; linkable is
\* the driver's verdict on the pair of compiled stages
ShaderNew(c, s, vertexSource, fragmentSource, linkable) ==
  LET p == ProgramOf[s]
      c1 == [Emit(c, "createProgram", p, 0, 0) EXCEPT
               !.gl.programs[p] = [linked |-> FALSE, flagged |-> FALSE,
                                   deleted |-> FALSE, releases |-> 0,
                                   uniforms |-> [n \in ActiveUniforms |-> Unset]]]
      c2 == compileSource(c1, "VERTEX_SHADER", vertexSource)
  IN IF c2.err # NoErr THEN c2 ELSE
     LET c3 == Emit(c2, "attachShader", "VERTEX_SHADER", 0, 0)
         c4 == compileSource(c3, "FRAGMENT_SHADER", fragmentSource)
     IN IF c4.err # NoErr THEN c4 ELSE
        LET c5 == Emit(c4, "attachShader", "FRAGMENT_SHADER", 0, 0)
            c6 == [Emit(c5, "linkProgram", p, 0, 0) EXCEPT
                     !.gl.programs[p].linked = linkable]
        IN IF ~c6.gl.programs[p].linked
           THEN Throw(c6, [kind |-> "link error", text |-> getProgramInfoLog])
           ELSE ShaderNewBuffers(c6, s)

\* destroy(), lines 132-135: the context call; this.program = null is the
\* assignment of the action
destroy(c, s) == deleteProgram(c, shader[s].program)

\* destroy() without the assignment this.program = null
ProgramAfterDestroy_Kept(s) == shader[s].program

\* the field this.program after destroy(), line 134
ProgramAfterDestroy(s) == Null

\* the dispatch without the integer path: every number goes to uniform1f
UniformDispatch_FloatOnly(c, location, name, value) ==
  IF Array_isArray(value)
  THEN CASE value.len = 1 -> Upload(c, "uniform1fv", location, 1, FALSE)
         [] value.len = 2 -> Upload(c, "uniform2fv", location, 2, FALSE)
         [] value.len = 3 -> Upload(c, "uniform3fv", location, 3, FALSE)
         [] value.len = 4 -> Upload(c, "uniform4fv", location, 4, FALSE)
         [] value.len = 9 -> Upload(c, "uniformMatrix3fv", location, 9, FALSE)
         [] value.len = 16 -> Upload(c, "uniformMatrix4fv", location, 16, FALSE)
         [] OTHER -> Throw(c, [kind |-> "dont know how to load uniform",
                               text |-> name])
  ELSE Upload(c, "uniform1f", location, 0, FALSE)

\* the dispatch with the matrices uploaded transposed
UniformDispatch_Transposed(c, location, name, value) ==
  IF Array_isArray(value)
  THEN CASE value.len = 1 -> Upload(c, "uniform1fv", location, 1, FALSE)
         [] value.len = 2 -> Upload(c, "uniform2fv", location, 2, FALSE)
         [] value.len = 3 -> Upload(c, "uniform3fv", location, 3, FALSE)
         [] value.len = 4 -> Upload(c, "uniform4fv", location, 4, FALSE)
         [] value.len = 9 -> Upload(c, "uniformMatrix3fv", location, 9, TRUE)
         [] value.len = 16 -> Upload(c, "uniformMatrix4fv", location, 16, TRUE)
         [] OTHER -> Throw(c, [kind |-> "dont know how to load uniform",
                               text |-> name])
  ELSE IF Number_isInteger(value)
       THEN Upload(c, "uniform1i", location, 0, FALSE)
       ELSE Upload(c, "uniform1f", location, 0, FALSE)

\* the dispatch of setUniform on the value's shape, lines 150-177
UniformDispatch(c, location, name, value) ==
  IF Array_isArray(value)
  THEN CASE value.len = 1 -> Upload(c, "uniform1fv", location, 1, FALSE)
         [] value.len = 2 -> Upload(c, "uniform2fv", location, 2, FALSE)
         [] value.len = 3 -> Upload(c, "uniform3fv", location, 3, FALSE)
         [] value.len = 4 -> Upload(c, "uniform4fv", location, 4, FALSE)
         [] value.len = 9 -> Upload(c, "uniformMatrix3fv", location, 9, FALSE)
         [] value.len = 16 -> Upload(c, "uniformMatrix4fv", location, 16, FALSE)
         [] OTHER -> Throw(c, [kind |-> "dont know how to load uniform",
                               text |-> name])
  ELSE IF Number_isInteger(value)
       THEN Upload(c, "uniform1i", location, 0, FALSE)
       ELSE Upload(c, "uniform1f", location, 0, FALSE)

\* setUniform without the return on a null location
HasLocation_Unchecked(location) == TRUE

\* the lookup of setUniform, lines 144-148: TRUE when the call goes on to
\* the dispatch
HasLocation(location) == location # NullLoc

\* setUniform without the useProgram of line 144
setUniform_NoUse(c, s, name, value) ==
  LET p == shader[s].program
      c2 == Emit(c, "getUniformLocation", name, 0, 0)
  IN IF p = Null THEN Throw(c2, [kind |-> "TypeError", text |-> "getUniformLocation"])
     ELSE LET location == getUniformLocation(p, name)
          IN IF ~HasLocation(location) THEN c2
             ELSE UniformDispatch(c2, location, name, value)

\* setUniform that puts the program that was current back before it returns
setUniform_Restoring(c, s, name, value) ==
  LET p == shader[s].program
      c1 == useProgram(c, p)
      c2 == Emit(c1, "getUniformLocation", name, 0, 0)
  IN IF p = Null THEN Throw(c2, [kind |-> "TypeError", text |-> "getUniformLocation"])
     ELSE LET location == getUniformLocation(p, name)
          IN IF ~HasLocation(location) THEN useProgram(c2, c.gl.program)
             ELSE useProgram(UniformDispatch(c2, location, name, value), c.gl.program)

\* setUniform(name, value), lines 143-178
setUniform(c, s, name, value) ==
  LET p == shader[s].program
      c1 == useProgram(c, p)
      c2 == Emit(c1, "getUniformLocation", name, 0, 0)
  IN IF p = Null THEN Throw(c2, [kind |-> "TypeError", text |-> "getUniformLocation"])
     ELSE LET location == getUniformLocation(p, name)
          IN IF ~HasLocation(location) THEN c2
             ELSE UniformDispatch(c2, location, name, value)

\* lines 192-194: textures[unit].use(unit) in list order; an element that is
\* no Texture object has no method use, and the call throws
RECURSIVE UseAll(_, _, _)
UseAll(c, textures, i) ==
  IF i > Len(textures) THEN c
  ELSE IF ~textures[i].wrapped
       THEN Throw(c, [kind |-> "TypeError", text |-> "use is not a function"])
       ELSE UseAll(TextureUse(c, textures[i], i - 1), textures, i + 1)

\* lines 204-206: textures[unit].unuse(unit) in list order
RECURSIVE UnuseAll(_, _, _)
UnuseAll(c, textures, i) ==
  IF i > Len(textures) THEN c
  ELSE UnuseAll(TextureUnuse(c, textures[i], i - 1), textures, i + 1)

\* the viewport given height by width
RenderBindSurface_Swapped(c, surface) ==
  LET c1 == SurfaceBind(c, surface)
  IN viewport(c1, getHeight(c1, surface), getWidth(c1, surface))

\* lines 188-189: bind the surface and set the viewport
RenderBindSurface(c, surface) ==
  LET c1 == SurfaceBind(c, surface)
  IN viewport(c1, getWidth(c1, surface), getHeight(c1, surface))

\* the draw without the bindBuffer of line 199
RenderDraw_NoBuffer(c, s) ==
  LET c1 == Emit(c, "enableVertexAttribArray", "position", 0, 0)
      c2 == useProgram(c1, shader[s].program)
      c4 == Emit(c2, "vertexAttribPointer", "position", 4, 0)
  IN drawArrays(c4, "TRIANGLE_STRIP", 0, 4)

\* lines 197-201: use the shader and draw
RenderDraw(c, s) ==
  LET c1 == Emit(c, "enableVertexAttribArray", "position", 0, 0)
      c2 == useProgram(c1, shader[s].program)
      c3 == bindBuffer(c2, shader[s].vertexBuffer)
      c4 == Emit(c3, "vertexAttribPointer", "position", 4, 0)
  IN drawArrays(c4, "TRIANGLE_STRIP", 0, 4)

\* render(surface, textures), lines 186-210
render(c, s, surface, textures) ==
  LET c1 == RenderBindSurface(c, surface)
      c2 == UseAll(c1, textures, 1)
  IN IF c2.err # NoErr THEN c2
     ELSE SurfaceUnbind(UnuseAll(RenderDraw(c2, s), textures, 1), surface)

\* ------------------------------------------------------------ state machine
NoValue == [kind |-> "number", len |-> 0, twice |-> 0]

\* the last call: the method, the object, and its arguments (of a textures
\* list, its length; dims are the width and height given to a constructor)
Op(name, self, surface, textures, uname, value) ==
  [name |-> name, self |-> self, surface |-> surface, ntex |-> Len(textures),
   uname |-> uname, value |-> value, dims |-> NoDims]

\* a fresh context, no surface and no shader constructed yet
Init ==
  /\ gl = [framebuffer |-> Null, unit |-> 0, tex |-> [u \in Units |-> Null],
           renderbuffer |-> Null, program |-> Null, arrayBuffer |-> Null,
           viewport |-> <<0, 0, VisibleDims[1], VisibleDims[2]>>,
           texDims |-> [t \in TexHandles |-> NoDims], written |-> {},
           rbDims |-> [r \in Renderbuffers |-> NoDims],
           fbs |-> [f \in Framebuffers |->
                      [width |-> 0, height |-> 0, color |-> Null, depth |-> Null]],
           programs |-> [p \in Programs |->
                           [linked |-> FALSE, flagged |-> FALSE, deleted |-> FALSE,
                            releases |-> 0,
                            uniforms |-> [n \in ActiveUniforms |-> Unset]]]]
  /\ shader = [s \in ShaderIds |->
                 [state |-> "Uncompiled", program |-> Null, vertexBuffer |-> Null]]
  /\ hidden = [h \in HiddenIds |->
                 [made |-> FALSE, hiddenSurface |-> Null,
                  framebuffer_texture |-> Null, render_buffer |-> Null]]
  /\ op = Op("init", "-", "-", <<>>, "-", NoValue)
  /\ err = NoErr

\* the run record a method call starts from
Start == [gl |-> gl, log |-> <<>>, draws |-> <<>>, err |-> NoErr]

Commit(c, o) ==
  /\ gl' = c.gl
  /\ err' = c.err
  /\ op' = o

Constructed(s) == shader[s].state \in {"Linked", "Destroyed"}

\* the surfaces a caller holds
Surfaces == {Visible} \cup {h \in HiddenIds : hidden[h].made}

\* what a caller can put in a textures list: Texture objects, and the values
\* getTexture() of the hidden surfaces returns
TextureItems ==
  {[wrapped |-> TRUE, id |-> t] : t \in WrappedHandles}
    \cup {getTexture(h) : h \in {x \in HiddenIds : hidden[x].made}}

\* new HiddenSurface(gl, width, height)
NewHiddenSurface(h, width, height) ==
  /\ ~hidden[h].made
  /\ Commit(HiddenSurfaceNew(Start, h, width, height),
            [Op("newHidden", h, h, <<>>, "-", NoValue) EXCEPT
               !.dims = <<width, height>>])
  /\ hidden' = [hidden EXCEPT ![h] =
                  [made |-> TRUE, hiddenSurface |-> FbOf[h],
                   framebuffer_texture |-> TexOf[h], render_buffer |-> RbOf[h]]]
  /\ UNCHANGED shader

\* surface.bind() called by the application
Bind(h) ==
  /\ hidden[h].made
  /\ Commit(HiddenBind(Start, h), Op("bind", h, h, <<>>, "-", NoValue))
  /\ UNCHANGED <<shader, hidden>>

\* surface.unbind() called by the application
Unbind(h) ==
  /\ hidden[h].made
  /\ Commit(HiddenUnbind(Start, h), Op("unbind", h, h, <<>>, "-", NoValue))
  /\ UNCHANGED <<shader, hidden>>

\* new Shader(gl, vertexSource, fragmentSource); a constructor that throws
\* yields no object
NewShader(s, vertexSource, fragmentSource, linkable) ==
  /\ shader[s].state = "Uncompiled"
  /\ LET c == ShaderNew(Start, s, vertexSource, fragmentSource, linkable)
     IN /\ Commit(c, Op("newShader", s, "-", <<>>, "-", NoValue))
        /\ shader' = IF c.err = NoErr
                     THEN [shader EXCEPT ![s] =
                             [state |-> "Linked", program |-> ProgramOf[s],
                              vertexBuffer |-> BufferOf[s]]]
                     ELSE shader
  /\ UNCHANGED hidden

\* shader.setUniform(name, value)
SetUniform(s, name, value) ==
  /\ Constructed(s)
  /\ Commit(setUniform(Start, s, name, value),
            Op("setUniform", s, "-", <<>>, name, value))
  /\ UNCHANGED <<shader, hidden>>

\* shader.render(surface, textures)
Render(s, surface, textures) ==
  /\ Constructed(s)
  /\ Commit(render(Start, s, surface, textures),
            Op("render", s, surface, textures, "-", NoValue))
  /\ UNCHANGED <<shader, hidden>>

\* shader.destroy()
Destroy(s) ==
  /\ Constructed(s)
  /\ Commit(destroy(Start, s), Op("destroy", s, "-", <<>>, "-", NoValue))
  /\ shader' = [shader EXCEPT ![s].state = "Destroyed",
                              ![s].program = ProgramAfterDestroy(s)]
  /\ UNCHANGED hidden

\* the texture lists of at most n elements
TextureListsUpTo(n) == UNION {[1 .. k -> TextureItems] : k \in 0 .. n}

\* the calls on surfaces and on rendering with linked shaders
Next ==
  \/ \E h \in HiddenIds, w \in Dims, ht \in Dims : NewHiddenSurface(h, w, ht)
  \/ \E h \in HiddenIds : Bind(h)
  \/ \E h \in HiddenIds : Unbind(h)
  \/ \E s \in ShaderIds, vs \in Sources, fs \in Sources, l \in BOOLEAN :
       NewShader(s, vs, fs, l)
  \/ \E s \in ShaderIds, sf \in Surfaces, ts \in TextureListsUpTo(MaxTextures) :
       Render(s, sf, ts)

Spec == Init /\ [][Next]_vars

\* the life of shaders: construction, every uniform value, drawing to the
\* visible surface, destruction
NextShader ==
  \/ \E s \in ShaderIds, vs \in Sources, fs \in Sources, l \in BOOLEAN :
       NewShader(s, vs, fs, l)
  \/ \E s \in ShaderIds, n \in UniformNames, v \in Values : SetUniform(s, n, v)
  \/ \E s \in ShaderIds : Render(s, Visible, <<>>)
  \/ \E s \in ShaderIds : Destroy(s)

SpecShader == Init /\ [][NextShader]_vars

\* ------------------------------------------------- reading a run record
UploadCalls ==
  {"uniform1i", "uniform1f", "uniform1fv", "uniform2fv", "uniform3fv",
   "uniform4fv", "uniformMatrix3fv", "uniformMatrix4fv"}

IsUpload(e) == e.call \in UploadCalls

Uploads(calls) == SelectSeq(calls, IsUpload)

Issued(calls, name) == \E i \in 1 .. Len(calls) : calls[i].call = name

Linked(s) == shader[s].state = "Linked"

MadeHidden == {h \in HiddenIds : hidden[h].made}

DeclaredDims(h) ==
  <<gl.fbs[hidden[h].hiddenSurface].width, gl.fbs[hidden[h].hiddenSurface].height>>

\* ------------------------------------------------------------------- C1
\* C1: after every render() that returns, the framebuffer binding and the
\* texture binding of every unit are what they were before the call.
C1_RenderRestoresBindings ==
  [][(op'.name = "render" /\ err' = NoErr)
       => (gl'.framebuffer = gl.framebuffer /\ gl'.tex = gl.tex)]_vars

\* ------------------------------------------------------------------- C2
C2_VectorCall == <<"uniform1fv", "uniform2fv", "uniform3fv", "uniform4fv">>

C2_Expected(r, name, len) ==
  CASE len \in 1 .. 4 ->
         r.err = NoErr /\ Uploads(r.log) = <<Call(C2_VectorCall[len], name, len, 0)>>
    [] len = 9 ->
         r.err = NoErr /\ Uploads(r.log) = <<Call("uniformMatrix3fv", name, 9, 0)>>
    [] len = 16 ->
         r.err = NoErr /\ Uploads(r.log) = <<Call("uniformMatrix4fv", name, 16, 0)>>
    [] OTHER ->
         r.err.kind = "dont know how to load uniform" /\ Uploads(r.log) = <<>>

\* C2 as stated: every setUniform(name, value) with an array value issues
\* exactly the upload of its length (vector for 1-4, untransposed matrix for
\* 9 and 16) and fails without an upload for every other length.
C2_Original ==
  \A s \in ShaderIds, n \in UniformNames, v \in Values :
    (Linked(s) /\ v.kind = "array")
      => C2_Expected(setUniform(Start, s, n, v), n, v.len)

\* C2 amended: the same, for the names that have a location in the linked
\* program.
C2_Dispatch ==
  \A s \in ShaderIds, n \in ActiveUniforms, v \in Values :
    (Linked(s) /\ v.kind = "array")
      => C2_Expected(setUniform(Start, s, n, v), n, v.len)

\* a 3x3 matrix is stored untransposed in one program, and the last call, on
\* a linked shader with a present name, failed on an array of length 5
C2_Witness ==
  /\ op.name = "setUniform" /\ op.uname \in ActiveUniforms
  /\ op.value.kind = "array" /\ op.value.len = 5
  /\ Linked(op.self)
  /\ err.kind = "dont know how to load uniform"
  /\ \E p \in Programs :
       gl.programs[p].uniforms["amount"] =
         [fn |-> "uniformMatrix3fv", len |-> 9, transpose |-> FALSE]

\* ------------------------------------------------------------------- C3
\* C3: setUniform with a name that has no location in the linked program
\* returns without an error, issues no upload, and leaves every stored
\* uniform of every program unchanged, whatever the value.
C3_MissingNameIsNoOp ==
  \A s \in ShaderIds, n \in UniformNames \ ActiveUniforms, v \in Values :
    Linked(s) =>
      LET r == setUniform(Start, s, n, v)
      IN /\ r.err = NoErr
         /\ Uploads(r.log) = <<>>
         /\ \A p \in Programs : r.gl.programs[p].uniforms = gl.programs[p].uniforms

\* the last call set an absent name to an array of unsupported length on a
\* linked shader and returned normally, with a value stored in some program
C3_Witness ==
  /\ op.name = "setUniform" /\ op.uname \notin ActiveUniforms
  /\ op.value.kind = "array" /\ op.value.len = 5
  /\ Linked(op.self) /\ err = NoErr
  /\ \E p \in Programs : gl.programs[p].uniforms["amount"] # Unset

\* ------------------------------------------------------------------- C4
C4_Construction(s, vs, fs, l) ==
  LET r == ShaderNew(Start, s, vs, fs, l)
  IN /\ (vs = "bad") =>
          /\ r.err = [kind |-> "compile error", text |-> "vlog"]
          /\ ~Issued(r.log, "linkProgram") /\ ~Issued(r.log, "createBuffer")
     /\ (vs = "good" /\ fs = "bad") =>
          /\ r.err = [kind |-> "compile error", text |-> "flog"]
          /\ ~Issued(r.log, "linkProgram") /\ ~Issued(r.log, "createBuffer")
     /\ (vs = "good" /\ fs = "good" /\ ~l) =>
          /\ r.err = [kind |-> "link error", text |-> "llog"]
          /\ ~Issued(r.log, "createBuffer")
     /\ (vs = "good" /\ fs = "good" /\ l) => r.err = NoErr

\* C4: a constructor whose vertex or fragment stage fails to compile raises
\* a compile error with the compiler's text and never links; one whose link
\* fails raises a link error with the linker's text; both abort before the
\* vertex buffer is allocated and yield no shader that could render.
C4_FailedConstructionYieldsNoShader ==
  /\ \A s \in ShaderIds, vs \in Sources, fs \in Sources, l \in BOOLEAN :
       shader[s].state = "Uncompiled" => C4_Construction(s, vs, fs, l)
  /\ (op.name = "newShader" /\ err # NoErr) =>
       /\ shader[op.self].state = "Uncompiled"
       /\ shader[op.self].vertexBuffer = Null
       /\ gl.arrayBuffer # BufferOf[op.self]
  /\ \A s \in ShaderIds : Linked(s) => gl.programs[shader[s].program].linked

\* the last call was a constructor that failed at the link, next to a shader
\* that was constructed
C4_Witness ==
  /\ op.name = "newShader" /\ err.kind = "link error"
  /\ shader[op.self].state = "Uncompiled"
  /\ \E s \in ShaderIds : Linked(s)

\* ------------------------------------------------------------------- C5
\* C5: once a shader has rendered into a hidden target H, the value of
\* H.getTexture() can be put in the textures list of a render of a second
\* shader; that call completes without error and, at its draw, H's colour
\* texture is bound to the unit of its position in the list.
C5_PassChaining ==
  \A h \in MadeHidden, b \in ShaderIds, target2 \in Surfaces,
     ts \in TextureListsUpTo(MaxTextures) :
    ( /\ op.name = "render" /\ op.surface = h /\ err = NoErr
      /\ hidden[h].framebuffer_texture \in gl.written
      /\ Linked(b) /\ b # op.self
      /\ \E i \in 1 .. Len(ts) : ts[i] = getTexture(h) )
    => LET r == render(Start, b, target2, ts)
       IN /\ r.err = NoErr
          /\ Len(r.draws) = 1
          /\ \A i \in 1 .. Len(ts) :
               ts[i] = getTexture(h)
                 => r.draws[1].tex[i - 1] = hidden[h].framebuffer_texture

\* ------------------------------------------------------------------- C6
C6_Ignored == {"enableVertexAttribArray", "vertexAttribPointer"}

C6_Named(e) == e.call \notin C6_Ignored

RECURSIVE C6_Binds(_, _)
C6_Binds(ts, i) ==
  IF i > Len(ts) THEN <<>>
  ELSE <<Call("activeTexture", "TEXTURE", i - 1, 0),
         Call("bindTexture", ts[i].id, i - 1, 0)>> \o C6_Binds(ts, i + 1)

RECURSIVE C6_Unbinds(_, _)
C6_Unbinds(ts, i) ==
  IF i > Len(ts) THEN <<>>
  ELSE <<Call("activeTexture", "TEXTURE", i - 1, 0),
         Call("bindTexture", Null, i - 1, 0)>> \o C6_Unbinds(ts, i + 1)

\* target.bind, viewport, the binds in list order on the unit of the
\* position, program and vertex buffer, one draw of a 4-vertex strip, the
\* unbinds on the same units, target.unbind
C6_Order(s, sf, ts) ==
  LET lastUnit == IF ts = <<>> THEN gl.unit ELSE Len(ts) - 1
  IN SurfaceBind(Start, sf).log
       \o <<Call("viewport", "-", getWidth(Start, sf), getHeight(Start, sf))>>
       \o C6_Binds(ts, 1)
       \o <<Call("useProgram", shader[s].program, 0, 0),
            Call("bindBuffer", shader[s].vertexBuffer, 0, 0),
            Call("drawArrays", "TRIANGLE_STRIP", 0, 4)>>
       \o C6_Unbinds(ts, 1)
       \o SurfaceUnbind([Start EXCEPT !.gl.unit = lastUnit], sf).log

\* C6: every render(target, textures) issues, in this order, target.bind,
\* the viewport, a bind of each texture on the unit of its position, the
\* program and the vertex buffer, exactly one draw of a 4-vertex triangle
\* strip, an unbind of each texture on its unit, and target.unbind.
C6_RenderOrder ==
  \A s \in ShaderIds, sf \in Surfaces, ts \in TextureListsUpTo(MaxTextures) :
    Linked(s) =>
      LET r == render(Start, s, sf, ts)
      IN r.err = NoErr /\ SelectSeq(r.log, C6_Named) = C6_Order(s, sf, ts)

AllWrapped(ts) == \A i \in 1 .. Len(ts) : ts[i].wrapped

\* the order of C6 for the lists that hold Texture objects only
C6_OrderForTextureObjects ==
  \A s \in ShaderIds, sf \in Surfaces, ts \in TextureListsUpTo(MaxTextures) :
    (Linked(s) /\ AllWrapped(ts)) =>
      LET r == render(Start, s, sf, ts)
      IN r.err = NoErr /\ SelectSeq(r.log, C6_Named) = C6_Order(s, sf, ts)

\* ------------------------------------------------------------------- C7
C7_Match ==
  \A h \in MadeHidden :
    LET fb == hidden[h].hiddenSurface
    IN /\ gl.fbs[fb].color = hidden[h].framebuffer_texture
       /\ gl.fbs[fb].depth = hidden[h].render_buffer
       /\ gl.texDims[gl.fbs[fb].color] = DeclaredDims(h)
       /\ gl.rbDims[gl.fbs[fb].depth] = DeclaredDims(h)

\* C7: after every step, the colour texture and the depth renderbuffer
\* attached to a hidden target's framebuffer have the width and height
\* declared on the framebuffer, which are the ones given to the constructor
\* and which no later operation changes.
C7_DimensionsMatch ==
  [][ /\ C7_Match'
      /\ (op'.name = "newHidden") =>
           <<gl'.fbs[FbOf[op'.self]].width, gl'.fbs[FbOf[op'.self]].height>> = op'.dims
      /\ \A h \in MadeHidden : DeclaredDims(h)' = DeclaredDims(h) ]_vars

\* a target of width 1 and height 2 has been drawn into, the last call was a
\* render into it with textures, and its framebuffer is the one bound
C7_Witness ==
  /\ op.name = "render" /\ op.surface \in MadeHidden /\ op.ntex > 0
  /\ DeclaredDims(op.surface) = <<1, 2>>
  /\ hidden[op.surface].framebuffer_texture \in gl.written
  /\ gl.framebuffer = hidden[op.surface].hiddenSurface

\* ------------------------------------------------------------------- C8
C8_State ==
  \A s \in ShaderIds :
    /\ shader[s].state = "Destroyed" =>
         (shader[s].program = Null /\ gl.programs[ProgramOf[s]].releases = 1)
    /\ shader[s].state # "Destroyed" => gl.programs[ProgramOf[s]].releases = 0
    /\ Constructed(s) =>
         LET r == render(Start, s, Visible, <<>>)
         IN \A i \in 1 .. Len(r.draws) :
              /\ r.draws[i].program = shader[s].program
              /\ r.draws[i].executed => ~gl.programs[r.draws[i].program].flagged

\* C8: a shader goes Uncompiled -> Linked -> Destroyed and stays Destroyed;
\* from destroy() on its program handle is null whatever is called on it,
\* its program is released exactly once however often destroy() is called,
\* and no draw executes with a released program active.
C8_Lifecycle ==
  /\ []C8_State
  /\ [][\A s \in ShaderIds :
          /\ shader[s].state = "Destroyed" =>
               (shader'[s].state = "Destroyed" /\ shader'[s].program = Null)
          /\ shader'[s].state # shader[s].state =>
               <<shader[s].state, shader'[s].state>> \in
                 {<<"Uncompiled", "Linked">>, <<"Linked", "Destroyed">>}]_vars

\* the last call was a render on a destroyed shader whose program was the
\* current one when it was destroyed, next to a linked shader
C8_Witness ==
  /\ op.name = "render" /\ shader[op.self].state = "Destroyed"
  /\ gl.programs[ProgramOf[op.self]].releases = 1
  /\ gl.programs[ProgramOf[op.self]].deleted
  /\ gl.program = Null
  /\ \E s \in ShaderIds : Linked(s)

C10_ConstructorLeavesUnbound ==
  op.name = "newHidden" =>
    /\ gl.framebuffer = Null
    /\ gl.tex[gl.unit] = Null
    /\ gl.renderbuffer = Null
    /\ \A u \in Units : gl.tex[u] # TexOf[op.self]
    /\ gl.fbs[FbOf[op.self]].color = TexOf[op.self]
    /\ gl.fbs[FbOf[op.self]].depth = RbOf[op.self]

\* a hidden surface was constructed after a shader, whose program is current
C10_Witness ==
  /\ op.name = "newHidden" /\ hidden[op.self].made
  /\ gl.program # Null
  /\ gl.texDims[TexOf[op.self]] = op.dims

\* ------------------------------------------------------------------ C11
\* C11: unbind() of a hidden target sets the 2D-texture binding of the
\* active unit to null and changes nothing else of the context; called after
\* bind(), it leaves the target's framebuffer the one bound.
C11_UnbindKeepsFramebuffer ==
  [][ /\ (op'.name = "unbind") => (gl' = [gl EXCEPT !.tex[gl.unit] = Null])
      /\ (op.name = "bind" /\ op'.name = "unbind" /\ op'.self = op.self) =>
           (gl'.framebuffer = hidden[op.self].hiddenSurface) ]_vars

\* the last call was unbind() on a target that has been drawn into, and the
\* target's framebuffer is still the one bound
C11_Witness ==
  /\ op.name = "unbind"
  /\ gl.framebuffer = hidden[op.self].hiddenSurface
  /\ gl.tex[gl.unit] = Null
  /\ hidden[op.self].framebuffer_texture \in gl.written

\* ------------------------------------------------------------------ C12
\* C12 as stated: after a render() that returns, the active program and the
\* array-buffer binding are what they were before the call.
C12_Original ==
  [][(op'.name = "render" /\ err' = NoErr)
       => (gl'.program = gl.program /\ gl'.arrayBuffer = gl.arrayBuffer)]_vars

\* C12 amended: after a render() that returns, the active program and the
\* array-buffer binding are the rendering shader's own program and vertex
\* buffer, whatever they were before, and no field of a shader has changed.
C12_RenderLeavesOwnProgram ==
  [][(op'.name = "render" /\ err' = NoErr)
       => /\ gl'.program = shader[op'.self].program
          /\ gl'.arrayBuffer = shader[op'.self].vertexBuffer
          /\ shader' = shader]_vars

\* the last call was a render of A that returned, although B was constructed
\* after A: A's program and vertex buffer are the ones bound
C12_Witness ==
  /\ op.name = "render" /\ err = NoErr
  /\ \A s \in ShaderIds : Linked(s)
  /\ gl.program = shader[op.self].program
  /\ gl.arrayBuffer = shader[op.self].vertexBuffer
  /\ op.surface \in MadeHidden /\ op.ntex > 0

\* ------------------------------------------------------------------ C13
\* what a successful setUniform of a value leaves stored
C13_Stored(v) ==
  IF v.kind = "array"
  THEN [fn |-> CASE v.len = 1 -> "uniform1fv" [] v.len = 2 -> "uniform2fv"
                 [] v.len = 3 -> "uniform3fv" [] v.len = 4 -> "uniform4fv"
                 [] v.len = 9 -> "uniformMatrix3fv" [] OTHER -> "uniformMatrix4fv",
        len |-> v.len, transpose |-> FALSE]
  ELSE [fn |-> IF \E k \in 0 .. v.twice : v.twice = 2 * k
               THEN "uniform1i" ELSE "uniform1f",
        len |-> 0, transpose |-> FALSE]

\* render uploads nothing, and draws with the values stored in the program
\* of its own shader
C13_RenderKeepsUniforms ==
  \A s \in ShaderIds :
    Linked(s) =>
      LET r == render(Start, s, Visible, <<>>)
      IN /\ Uploads(r.log) = <<>>
         /\ \A p \in Programs : r.gl.programs[p].uniforms = gl.programs[p].uniforms
         /\ Len(r.draws) = 1
         /\ r.draws[1].program = shader[s].program
         /\ r.draws[1].uniforms = gl.programs[shader[s].program].uniforms["amount"]

\* C13: render issues no upload and draws with the stored values of its own
\* program; a stored value of a program changes only in a setUniform of the
\* shader of that program, and every setUniform of a present name that
\* returns leaves its value stored: the values at a draw of A are the ones
\* A.setUniform last set, whatever was called on B in between.
C13_UniformsPerShader ==
  /\ []C13_RenderKeepsUniforms
  /\ [][\A p \in Programs :
          (gl'.programs[p].uniforms # gl.programs[p].uniforms) =>
            (/\ op'.name = "setUniform" /\ err' = NoErr
             /\ p = ProgramOf[op'.self])]_vars
  /\ [][(op'.name = "setUniform" /\ err' = NoErr /\ Linked(op'.self)
          /\ op'.uname \in ActiveUniforms) =>
         (gl'.programs[ProgramOf[op'.self]].uniforms[op'.uname]
            = C13_Stored(op'.value))]_vars

\* the last call was a draw of a linked shader whose program holds a 4x4
\* matrix, while the program of the other shader holds an integer
C13_Witness ==
  /\ op.name = "render" /\ Linked(op.self) /\ err = NoErr
  /\ gl.programs[ProgramOf[op.self]].uniforms["amount"].fn = "uniformMatrix4fv"
  /\ \E s \in ShaderIds \ {op.self} :
       Linked(s) /\ gl.programs[ProgramOf[s]].uniforms["amount"].fn = "uniform1i"

\* ------------------------------------------------------------------ C14
\* C14: setUniform of a present name with a value that is no array issues
\* exactly one upload: uniform1i when the number is an integer, uniform1f
\* when it is not.
C14_ScalarDispatch ==
  \A s \in ShaderIds, n \in ActiveUniforms, v \in Values :
    (Linked(s) /\ v.kind = "number") =>
      LET r == setUniform(Start, s, n, v)
          whole == \E k \in 0 .. v.twice : v.twice = 2 * k
      IN /\ r.err = NoErr
         /\ Uploads(r.log) =
              <<Call(IF whole THEN "uniform1i" ELSE "uniform1f", n, 0, 0)>>

\* the last call set the number 3/2, stored by uniform1f in one program,
\* while the other program holds a number stored by uniform1i
C14_Witness ==
  /\ op.name = "setUniform" /\ op.value.kind = "number" /\ op.value.twice = 3
  /\ err = NoErr
  /\ gl.programs[ProgramOf[op.self]].uniforms["amount"].fn = "uniform1f"
  /\ \E s \in ShaderIds \ {op.self} :
       gl.programs[ProgramOf[s]].uniforms["amount"].fn = "uniform1i"

\* ------------------------------------------------------------------ C15
\* C15: every setUniform on a linked shader, whether it uploads, finds no
\* location or throws on the length, leaves the shader's program the active
\* one and changes no other binding of the context.
C15_SetUniformLeavesProgramActive ==
  \A s \in ShaderIds, n \in UniformNames, v \in Values :
    Linked(s) =>
      LET r == setUniform(Start, s, n, v)
      IN /\ r.gl.program = shader[s].program
         /\ r.gl.framebuffer = gl.framebuffer
         /\ r.gl.tex = gl.tex
         /\ r.gl.unit = gl.unit
         /\ r.gl.renderbuffer = gl.renderbuffer
         /\ r.gl.arrayBuffer = gl.arrayBuffer
         /\ r.gl.viewport = gl.viewport

\* the last call was a setUniform that threw on the length, on the shader
\* constructed first: its program is active, the buffer of the other shader
\* is still the one bound
C15_Witness ==
  /\ op.name = "setUniform" /\ err.kind = "dont know how to load uniform"
  /\ Linked(op.self)
  /\ gl.program = shader[op.self].program
  /\ gl.arrayBuffer # Null /\ gl.arrayBuffer # shader[op.self].vertexBuffer

====
